---- MODULE Spec2Model ----
(***************************************************************************)
(* MongoNodeStorage (sentry_nodestore_mongodb/backend.py): a node store    *)
(* that keeps values in a MongoDB collection (the primary tier) and falls  *)
(* back to an S3 bucket (the archival tier) on a primary miss.             *)
(*                                                                         *)
(* Spec   : every public method is one atomic call (sequential callers).   *)
(* SpecC  : concurrent get() calls, one action per tier round trip.        *)
(* SpecI  : engines constructed one after the other, and their set calls.  *)
(* SpecP  : engines constructed concurrently, one action per index request.*)
(* SpecW  : concurrent set() calls, one action per tier round trip.        *)
(***************************************************************************)
EXTENDS Integers, Sequences, FiniteSets, TLC

VARIABLES
    compression,    \* self.compression; "" stands for None (falsy)
    read_from_s3,   \* self.read_from_s3
    bucket_path,    \* self.bucket_path: <<>> is None, <<p>> is the prefix p
    collection,     \* the MongoDB collection: a set of documents
    indexes,        \* the indexes of the collection, besides that on _id
    bucket,         \* the S3 bucket: a function from keys to objects
    today,          \* datetime.utcnow().date(), as a day number
    last,           \* the call that returned last (Spec)
    calls,          \* the stack frame of every in-flight get() (SpecC)
    cold            \* history: the logical value each id had in the bucket at start

vars == <<compression, read_from_s3, bucket_path, collection, indexes, bucket,
          today, last, calls, cold>>

----------------------------------------------------------------------------
(* Bounds and input sets *)

MaxLen == 3         \* longest payload
MaxList == 2        \* longest id list given to get_multi / delete_multi
NumProcs == 2       \* concurrent callers in SpecC, SpecP and SpecW
MaxTtl == 2         \* longest default_ttl_days, in days

Ids == {"a", "b"}
Byte == {0, 1}

Repeat(b, n) == [i \in 1..n |-> b]

\* Payloads: every run of the byte 0 up to MaxLen, and one mixed payload.
Payloads == {Repeat(0, n) : n \in 0..MaxLen} \cup {<<0, 1>>}

IdLists == UNION {[1..n -> Ids] : n \in 0..MaxList}

\* Optional values (bytes | None): <<>> is None, <<v>> is the value v.
None == <<>>
Some(v) == <<v>>

----------------------------------------------------------------------------
(* The codec registry: compression_strategies = {"zstd": ZstdCodec()}.     *)
(* ZstdCodec is modelled as a framed run-length code: one magic byte, then *)
(* one byte per run (run length and run byte packed). It is lossless,      *)
(* lengthens short or mixed payloads and shortens long runs, as zstd does. *)

ZstdMagic == 40
NByte == Cardinality(Byte)

RECURSIVE RunLen(_)
RunLen(s) ==
    IF Len(s) <= 1 THEN Len(s)
    ELSE IF s[2] = s[1] THEN 1 + RunLen(Tail(s)) ELSE 1

RECURSIVE EncodeRuns(_)
EncodeRuns(s) ==
    IF s = <<>> THEN <<>>
    ELSE LET n == RunLen(s)
         IN  <<n * NByte + s[1]>> \o EncodeRuns(SubSeq(s, n + 1, Len(s)))

RECURSIVE DecodeRuns(_)
DecodeRuns(d) ==
    IF d = <<>> THEN <<>>
    ELSE Repeat(d[1] % NByte, d[1] \div NByte) \o DecodeRuns(Tail(d))

ZstdEncode(data) == <<ZstdMagic>> \o EncodeRuns(data)

ZstdDecode(data) == DecodeRuns(Tail(data))

Registry == {"zstd"}

CodecEncode(name, data) == IF name = "zstd" THEN ZstdEncode(data) ELSE data

CodecDecode(name, data) == IF name = "zstd" THEN ZstdDecode(data) ELSE data

\* codec = compression_strategies.get(tag); codec.decode(data) if codec else data
DecodeStored(tag, data) ==
    IF tag \in Registry THEN CodecDecode(tag, data) ELSE data

----------------------------------------------------------------------------
(* The primary tier: pymongo collection operations on a set of documents   *)

DocsOf(coll, id) == {d \in coll : d._id = id}

\* insert_one: DuplicateKeyError when a document with the _id exists
InsertOne(coll, doc) ==
    IF DocsOf(coll, doc._id) # {}
    THEN [coll |-> coll, err |-> "DuplicateKeyError"]
    ELSE [coll |-> coll \cup {doc}, err |-> ""]

\* faulty variant of SetFields: only data is assigned
SetFieldsDataOnly(d, fields) ==
    [f \in DOMAIN d |-> IF f = "data" THEN fields[f] ELSE d[f]]

\* the $set update operator: the named fields are assigned, the rest kept
SetFields(d, fields) ==
    [f \in DOMAIN d |-> IF f \in DOMAIN fields THEN fields[f] ELSE d[f]]

\* update_one({'_id': id}, {'$set': fields}): no upsert
UpdateOne(coll, id, fields) ==
    {IF d._id = id THEN SetFields(d, fields) ELSE d : d \in coll}

\* delete_one({'_id': id})
DeleteOne(coll, id) == {d \in coll : d._id # id}

\* faulty variant of DeleteMany: only the first id of the list is deleted
DeleteManyFirst(coll, id_list) ==
    {d \in coll : id_list = <<>> \/ d._id # id_list[1]}

\* delete_many({'_id': {'$in': id_list}})
DeleteMany(coll, id_list) ==
    {d \in coll : \A i \in DOMAIN id_list : d._id # id_list[i]}

\* the index that lines 54-58 ask for
TtlIndex(default_ttl_days) ==
    [name |-> "created_day_ttl", key |-> "created_day",
     expireAfterSeconds |-> default_ttl_days * 24 * 3600]

\* the message of the OperationFailure that line 60 looks for
OptionsConflict == "already exists with different options"

IndexNotFound == "index not found with name"

\* create_index: nothing to do when the very index exists, OperationFailure
\* when one of the same name has other options
CreateIndex(idx, index) ==
    IF index \in idx THEN [indexes |-> idx, err |-> ""]
    ELSE IF \E i \in idx : i.name = index.name
    THEN [indexes |-> idx, err |-> OptionsConflict]
    ELSE [indexes |-> idx \cup {index}, err |-> ""]

\* faulty variant of DropIndex: the index stays
DropIndexNoop(idx, name) == [indexes |-> idx, err |-> ""]

\* drop_index(name): OperationFailure when there is no such index
DropIndex(idx, name) ==
    IF \E i \in idx : i.name = name
    THEN [indexes |-> {i \in idx : i.name # name}, err |-> ""]
    ELSE [indexes |-> idx, err |-> IndexNotFound]

\* find_one({'_id': id}): <<>> when no document matches
FindOne(coll, id) ==
    IF DocsOf(coll, id) = {} THEN None
    ELSE Some(CHOOSE d \in coll : d._id = id)

\* find({'_id': {'$in': ids}})
Find(coll, ids) == {d \in coll : \E i \in DOMAIN ids : d._id = ids[i]}

----------------------------------------------------------------------------
(* The archival tier *)

\* __get_key_for_id
GetKeyForId(path, id) == IF path = None THEN id ELSE path[1] \o "/" \o id

HasObject(bkt, key) == key \in DOMAIN bkt

\* faulty variant of DeleteObject: the object stays
DeleteObjectNoop(bkt, key) == bkt

\* delete_object
DeleteObject(bkt, key) == [k \in DOMAIN bkt \ {key} |-> bkt[k]]

\* s3_client.get_object(...): Body and ContentEncoding, None when NoSuchKey
GetObject(bkt, key) == IF HasObject(bkt, key) THEN Some(bkt[key]) ELSE None

----------------------------------------------------------------------------
(* The engine. Every method is an operator from the tiers' contents to    *)
(* the tiers' contents after it, what it returns and the exception it      *)
(* raises ("" for none). f names the request of a read's archival fallback *)
(* that fails with a transport failure during the call ("" for none); in  *)
(* a get_multi, at names the id whose requests fail.                       *)

Faults == {"", "get_object", "delete_object", "insert_one", "update_one"}

\* faulty variant of Compress: the tag is recorded, the data stays raw
CompressKeepsRaw(data) ==
    IF compression # "" /\ Len(CodecEncode(compression, data)) <= Len(data)
    THEN [data |-> data, content_encoding |-> compression]
    ELSE [data |-> data, content_encoding |-> ""]

\* faulty variant of Compress: the codec is adopted whenever one is configured
CompressAlways(data) ==
    IF compression # ""
    THEN [data |-> CodecEncode(compression, data), content_encoding |-> compression]
    ELSE [data |-> data, content_encoding |-> ""]

\* _set_bytes, lines 96-104: the codec is adopted when it does not lengthen
Compress(data) ==
    IF compression # ""
    THEN LET compressed_data == CodecEncode(compression, data)
         IN  IF Len(compressed_data) <= Len(data)
             THEN [data |-> compressed_data, content_encoding |-> compression]
             ELSE [data |-> data, content_encoding |-> ""]
    ELSE [data |-> data, content_encoding |-> ""]

\* _set_bytes, lines 106-112
MakeDoc(id, data) ==
    LET c == Compress(data)
    IN  [_id |-> id, data |-> c.data, content_encoding |-> c.content_encoding,
         created_day |-> today]

\* _set_bytes, lines 113-116: insert_one, update_one on DuplicateKeyError
SetBytes(coll, id, data, f) ==
    LET doc == MakeDoc(id, data)
        ins == InsertOne(coll, doc)
    IN  IF compression # "" /\ compression \notin Registry    \* line 98
        THEN [collection |-> coll, raised |-> "KeyError", path |-> ""]
        ELSE IF f = "insert_one"
        THEN [collection |-> coll, raised |-> f, path |-> ""]
        ELSE IF ins.err = ""
        THEN [collection |-> ins.coll, raised |-> "", path |-> "insert"]
        ELSE IF f = "update_one"
        THEN [collection |-> coll, raised |-> f, path |-> ""]
        ELSE [collection |-> UpdateOne(coll, id, doc), raised |-> "",
              path |-> "update"]

\* the logical value of a stored document or object
DocValue(doc) == DecodeStored(doc.content_encoding, doc.data)

ObjectValue(obj) == DecodeStored(obj.ContentEncoding, obj.Body)

\* faulty variant of ReadFromBucket: the object is deleted, the value is not written
ReadFromBucketNoWrite(coll, bkt, id, f) ==
    LET key == GetKeyForId(bucket_path, id)
        obj == GetObject(bkt, key)
    IN  IF f \in {"get_object", "delete_object"}
        THEN [collection |-> coll, bucket |-> bkt, ret |-> None, raised |-> f,
              path |-> ""]
        ELSE IF obj = None
        THEN [collection |-> coll, bucket |-> bkt, ret |-> None, raised |-> "",
              path |-> "NoSuchKey"]
        ELSE [collection |-> coll, bucket |-> DeleteObject(bkt, key),
              ret |-> Some(ObjectValue(obj[1])), raised |-> "",
              path |-> "migrated"]

\* faulty variant of ReadFromBucket: the value is returned, nothing is moved
ReadFromBucketNoMigrate(coll, bkt, id, f) ==
    LET obj == GetObject(bkt, GetKeyForId(bucket_path, id))
    IN  IF f \in {"get_object", "delete_object"}
        THEN [collection |-> coll, bucket |-> bkt, ret |-> None, raised |-> f,
              path |-> ""]
        ELSE IF obj = None
        THEN [collection |-> coll, bucket |-> bkt, ret |-> None, raised |-> "",
              path |-> "NoSuchKey"]
        ELSE [collection |-> coll, bucket |-> bkt,
              ret |-> Some(ObjectValue(obj[1])), raised |-> "", path |-> ""]

\* faulty variant of ReadFromBucket: every failure of the fetch is taken for
\* NoSuchKey
ReadFromBucketSwallow(coll, bkt, id, f) ==
    LET key == GetKeyForId(bucket_path, id)
        obj == GetObject(bkt, key)
    IN  IF f = "get_object" \/ obj = None
        THEN [collection |-> coll, bucket |-> bkt, ret |-> None, raised |-> "",
              path |-> "NoSuchKey"]
        ELSE IF f = "delete_object"
        THEN [collection |-> coll, bucket |-> bkt, ret |-> None, raised |-> f,
              path |-> ""]
        ELSE LET value == ObjectValue(obj[1])
                 w == SetBytes(coll, id, value, f)
             IN  [collection |-> w.collection,
                  bucket |-> DeleteObject(bkt, key),
                  ret |-> IF w.raised = "" THEN Some(value) ELSE None,
                  raised |-> w.raised,
                  path |-> IF w.raised = "" THEN "migrated" ELSE ""]

\* __read_from_bucket
ReadFromBucket(coll, bkt, id, f) ==
    LET key == GetKeyForId(bucket_path, id)
        obj == GetObject(bkt, key)
    IN  IF f = "get_object"
        THEN [collection |-> coll, bucket |-> bkt, ret |-> None, raised |-> f,
              path |-> ""]
        ELSE IF obj = None      \* except NoSuchKey: return None
        THEN [collection |-> coll, bucket |-> bkt, ret |-> None, raised |-> "",
              path |-> "NoSuchKey"]
        ELSE IF f = "delete_object"
        THEN [collection |-> coll, bucket |-> bkt, ret |-> None, raised |-> f,
              path |-> ""]
        ELSE LET value == ObjectValue(obj[1])
                 w == SetBytes(coll, id, value, f)
             IN  [collection |-> w.collection,
                  bucket |-> DeleteObject(bkt, key),
                  ret |-> IF w.raised = "" THEN Some(value) ELSE None,
                  raised |-> w.raised,
                  path |-> IF w.raised = "" THEN "migrated" ELSE ""]

\* faulty variant of GetBytes: the archival tier is consulted first
GetBytesArchivalFirst(coll, bkt, id, f) ==
    LET doc == FindOne(coll, id)
    IN  IF read_from_s3 /\ HasObject(bkt, GetKeyForId(bucket_path, id))
        THEN ReadFromBucket(coll, bkt, id, f)
        ELSE IF doc # None
        THEN [collection |-> coll, bucket |-> bkt,
              ret |-> Some(DocValue(doc[1])), raised |-> "", path |-> "primary"]
        ELSE [collection |-> coll, bucket |-> bkt, ret |-> None, raised |-> "",
              path |-> "miss"]

\* _get_bytes
GetBytes(coll, bkt, id, f) ==
    LET doc == FindOne(coll, id)
    IN  IF doc # None
        THEN [collection |-> coll, bucket |-> bkt,
              ret |-> Some(DocValue(doc[1])), raised |-> "", path |-> "primary"]
        ELSE IF read_from_s3
        THEN ReadFromBucket(coll, bkt, id, f)
        ELSE [collection |-> coll, bucket |-> bkt, ret |-> None, raised |-> "",
              path |-> "miss"]

\* _get_bytes_multi, step 2: result[doc['_id']] for every document found
FoundResult(docs) ==
    [id \in {d._id : d \in docs} |->
        Some(DocValue(CHOOSE d \in docs : d._id = id))]

\* _get_bytes_multi, step 3: __read_from_bucket for every missing id, in
\* order. ReadMissing reads the first, ReadRest takes what it returned (r),
\* assigns result[id_] and goes on with the others; an exception ends the
\* call, and failed is the id whose read raised it.
RECURSIVE ReadMissing(_, _, _, _, _, _), ReadRest(_, _, _, _, _)
ReadMissing(coll, bkt, result, missing_ids, f, at) ==
    IF missing_ids = <<>>
    THEN [collection |-> coll, bucket |-> bkt, result |-> result, raised |-> "",
          failed |-> ""]
    ELSE ReadRest(ReadFromBucket(coll, bkt, Head(missing_ids),
                                 IF Head(missing_ids) = at THEN f ELSE ""),
                  result, missing_ids, f, at)

ReadRest(r, result, missing_ids, f, at) ==
    IF r.raised # ""
    THEN [collection |-> r.collection, bucket |-> r.bucket, result |-> result,
          raised |-> r.raised, failed |-> Head(missing_ids)]
    ELSE ReadMissing(r.collection, r.bucket,
                     (Head(missing_ids) :> r.ret) @@ result, Tail(missing_ids),
                     f, at)

\* faulty variant of FillNone: the ids not in result are left out
FillNoneSkip(result, ids) == result

\* _get_bytes_multi, step 4: None for the ids still not in result
FillNone(result, ids) ==
    [id \in DOMAIN result \cup {ids[i] : i \in DOMAIN ids} |->
        IF id \in DOMAIN result THEN result[id] ELSE None]

\* _get_bytes_multi, lines 153-157: r is the outcome of steps 1 to 3
Filled(r, ids) ==
    [collection |-> r.collection, bucket |-> r.bucket,
     result |-> IF r.raised = "" THEN FillNone(r.result, ids) ELSE <<>>,
     raised |-> r.raised, failed |-> r.failed]

\* _get_bytes_multi, lines 147-150: result holds the documents found
Fallback(coll, bkt, ids, result, f, at) ==
    IF read_from_s3
    THEN ReadMissing(coll, bkt, result,
                     SelectSeq(ids, LAMBDA id_ : id_ \notin DOMAIN result), f, at)
    ELSE [collection |-> coll, bucket |-> bkt, result |-> result, raised |-> "",
          failed |-> ""]

\* _get_bytes_multi
GetBytesMulti(coll, bkt, ids, f, at) ==
    Filled(Fallback(coll, bkt, ids, FoundResult(Find(coll, ids)), f, at), ids)

\* the requests of __init__, lines 52-66, that may fail: the create_index of
\* line 54 with an OperationFailure that is not the conflict of line 60 (not
\* authorized, say) or with a ConnectionFailure, which is no
\* OperationFailure; the drop_index of line 61; the create_index of line 62
IndexFaults ==
    {"", "OperationFailure", "ConnectionFailure", "drop_index", "create_index"}

\* lines 61-66, in the handler of line 59: d is what drop_index returned
Recreate(d, index, f) ==
    IF d.err # "" THEN [indexes |-> d.indexes, raised |-> d.err, path |-> ""]
    ELSE IF f = "create_index"
    THEN [indexes |-> d.indexes, raised |-> f, path |-> ""]
    ELSE [indexes |-> CreateIndex(d.indexes, index).indexes,
          raised |-> CreateIndex(d.indexes, index).err, path |-> "recreated"]

\* lines 53-66: c is what the create_index of line 54 returned
Provisioned(c, idx, index, f) ==
    IF c.err = ""
    THEN [indexes |-> c.indexes, raised |-> "",
          path |-> IF c.indexes = idx THEN "exists" ELSE "created"]
    ELSE IF c.err # OptionsConflict     \* line 60 is false: nothing is raised
    THEN [indexes |-> idx, raised |-> "", path |-> "swallowed"]
    ELSE IF f = "drop_index" THEN [indexes |-> idx, raised |-> f, path |-> ""]
    ELSE Recreate(DropIndex(idx, index.name), index, f)

\* __init__, lines 52-66
EnsureTtlIndex(idx, default_ttl_days, f) ==
    IF default_ttl_days = 0         \* None and 0 are falsy
    THEN [indexes |-> idx, raised |-> "", path |-> "off"]
    ELSE IF f = "ConnectionFailure"
    THEN [indexes |-> idx, raised |-> f, path |-> ""]
    ELSE Provisioned(IF f = "OperationFailure"
                     THEN [indexes |-> idx, err |-> "not authorized"]
                     ELSE CreateIndex(idx, TtlIndex(default_ttl_days)),
                     idx, TtlIndex(default_ttl_days), f)

\* delete
DeleteId(coll, id) == DeleteOne(coll, id)

\* delete_multi
DeleteMulti(coll, id_list) == DeleteMany(coll, id_list)

----------------------------------------------------------------------------
(* Initial states: an engine constructed with some configuration, over a   *)
(* collection and a bucket that earlier writers have filled.               *)

Prefixes == {None, <<"nodes">>}

\* objects put in the bucket out of band, raw or zstd-coded
ColdObjects ==
    {[Body |-> <<0, 1>>, ContentEncoding |-> ""],
     [Body |-> ZstdEncode(<<1, 1, 1>>), ContentEncoding |-> "zstd"]}

ColdChoices == UNION {[S -> ColdObjects] : S \in SUBSET Ids}

\* the bucket that holds objs[id] under the key of every id in DOMAIN objs
BucketOf(path, objs) ==
    [k \in {GetKeyForId(path, id) : id \in DOMAIN objs} |->
        objs[CHOOSE id \in DOMAIN objs : GetKeyForId(path, id) = k]]

\* a document an engine configured with zstd wrote earlier
LegacyDoc ==
    [_id |-> "b", data |-> ZstdEncode(<<0, 0, 0>>), content_encoding |-> "zstd",
     created_day |-> 0]

NoCall ==
    [op |-> "", ids |-> <<>>, data |-> <<>>, ret |-> None, result |-> <<>>,
     raised |-> "", path |-> "", failed |-> ""]

InitStore ==
    /\ compression \in {"", "zstd"}
    /\ read_from_s3 \in BOOLEAN
    /\ bucket_path \in IF read_from_s3 THEN Prefixes ELSE {None}  \* line 72
    /\ collection \in {{}, {LegacyDoc}}
    /\ \E objs \in ColdChoices :
          /\ bucket = BucketOf(bucket_path, objs)
          /\ cold = [id \in Ids |->
                        IF id \in DOMAIN objs THEN Some(ObjectValue(objs[id]))
                        ELSE None]
    /\ today = 1      \* a day after LegacyDoc was written

Init ==
    /\ InitStore
    /\ indexes = {}
    /\ last = NoCall
    /\ calls = <<>>

----------------------------------------------------------------------------
(* Spec: sequential callers, one action per public method *)

config == <<compression, read_from_s3, bucket_path, indexes, today, cold>>

\* DeleteResult.deleted_count > 0, which the engine does not read
Deleted(before, after) == IF before # after THEN "deleted" ELSE ""

\* the call of op on ids with argument data ends with the outcome r
Ends(op, ids, data, r) ==
    /\ collection' = r.collection
    /\ bucket' = r.bucket
    /\ last' = [op |-> op, ids |-> ids, data |-> data, ret |-> r.ret,
                result |-> r.result, raised |-> r.raised, path |-> r.path,
                failed |-> r.failed]

\* the outcome r without the fields a method does not have
Outcome(r) ==
    [x \in DOMAIN NoCall \cup {"collection", "bucket"} |->
        IF x \in DOMAIN r THEN r[x]
        ELSE IF x = "bucket" THEN bucket ELSE NoCall[x]]

\* set(id, data, ttl): ttl is not used
Set(id, data) ==
    /\ Ends("set", <<id>>, data, Outcome(SetBytes(collection, id, data, "")))
    /\ UNCHANGED <<config, calls>>

\* get(id)
Get(id, f) ==
    /\ Ends("get", <<id>>, <<>>, Outcome(GetBytes(collection, bucket, id, f)))
    /\ UNCHANGED <<config, calls>>

\* bucket objects were deleted during the call
Moved(r) == [r EXCEPT !.path = IF r.bucket # bucket THEN "migrated" ELSE ""]

\* get_multi(ids)
GetMulti(ids, f, at) ==
    /\ Ends("get_multi", ids, <<>>,
            Moved(Outcome(GetBytesMulti(collection, bucket, ids, f, at))))
    /\ UNCHANGED <<config, calls>>

\* delete(id)
Delete(id) ==
    /\ collection' = DeleteId(collection, id)
    /\ last' = [NoCall EXCEPT !.op = "delete", !.ids = <<id>>,
                              !.path = Deleted(collection, collection')]
    /\ UNCHANGED <<bucket, config, calls>>

\* delete_multi(id_list)
DeleteMultiCall(id_list) ==
    /\ collection' = DeleteMulti(collection, id_list)
    /\ last' = [NoCall EXCEPT !.op = "delete_multi", !.ids = id_list,
                              !.path = Deleted(collection, collection')]
    /\ UNCHANGED <<bucket, config, calls>>

\* faulty variant of Cleanup: the records older than the cutoff are removed
CleanupExpires(cutoff_timestamp) ==
    /\ collection' = {d \in collection : d.created_day >= cutoff_timestamp}
    /\ last' = [NoCall EXCEPT !.op = "cleanup", !.data = <<cutoff_timestamp>>]
    /\ UNCHANGED <<bucket, config, calls>>

\* cleanup(cutoff_timestamp): return None
Cleanup(cutoff_timestamp) ==
    /\ last' = [NoCall EXCEPT !.op = "cleanup", !.data = <<cutoff_timestamp>>]
    /\ UNCHANGED <<collection, bucket, config, calls>>

Next ==
    \/ \E id \in Ids, data \in Payloads : Set(id, data)
    \/ \E id \in Ids, f \in Faults : Get(id, f)
    \/ \E ids \in IdLists, f \in {"", "get_object"}, at \in Ids :
          GetMulti(ids, f, at)
    \/ \E id \in Ids : Delete(id)
    \/ \E id_list \in IdLists : DeleteMultiCall(id_list)
    \/ \E cutoff_timestamp \in 0..1 : Cleanup(cutoff_timestamp)

Spec == Init /\ [][Next]_vars

----------------------------------------------------------------------------
(* SpecC: concurrent get(id) calls, one action per request to a tier.      *)
(* calls[p] is the frame of caller p: the statement it is at, its id, the  *)
(* value decoded from the object, what it returned and what it raised.     *)

Procs == 1..NumProcs

Idle == [pc |-> "idle", id |-> "", value |-> None, ret |-> None, raised |-> ""]

InitC ==
    /\ InitStore
    /\ collection = {}
    /\ indexes = {}
    /\ last = NoCall
    /\ calls = [p \in Procs |-> Idle]

frame == <<config, last>>

Return(p, ret) ==
    calls' = [calls EXCEPT ![p].pc = "done", ![p].ret = ret]

Raise(p, what) ==
    calls' = [calls EXCEPT ![p].pc = "done", ![p].raised = what]

Goto(p, pc) == calls' = [calls EXCEPT ![p].pc = pc]

\* get(id) is called
CallGet(p, id) ==
    /\ calls[p].pc = "idle"
    /\ calls' = [calls EXCEPT ![p].pc = "find_one", ![p].id = id]
    /\ UNCHANGED <<collection, bucket, frame>>

\* _get_bytes, lines 120-127
FindOneStep(p) ==
    /\ calls[p].pc = "find_one"
    /\ LET doc == FindOne(collection, calls[p].id)
       IN  IF doc # None THEN Return(p, Some(DocValue(doc[1])))
           ELSE IF read_from_s3 THEN Goto(p, "get_object")
           ELSE Return(p, None)
    /\ UNCHANGED <<collection, bucket, frame>>

\* __read_from_bucket, lines 171-180 and 190-191
GetObjectStep(p) ==
    /\ calls[p].pc = "get_object"
    /\ LET obj == GetObject(bucket, GetKeyForId(bucket_path, calls[p].id))
       IN  IF obj = None THEN Return(p, None)
           ELSE calls' = [calls EXCEPT ![p].pc = "delete_object",
                                       ![p].value = Some(ObjectValue(obj[1]))]
    /\ UNCHANGED <<collection, bucket, frame>>

\* __read_from_bucket, lines 182-185: the object is there
DeleteObjectStep(p) ==
    LET key == GetKeyForId(bucket_path, calls[p].id)
    IN  /\ calls[p].pc = "delete_object"
        /\ HasObject(bucket, key)
        /\ bucket' = DeleteObject(bucket, key)
        /\ Goto(p, "insert_one")
        /\ UNCHANGED <<collection, frame>>

\* __read_from_bucket, lines 182-189: the object is gone. The client either
\* reports success (S3 deletes are idempotent) or raises NoSuchKey, which
\* the handler of line 187 turns into returning the value without writing.
DeleteMissingStep(p, raises) ==
    /\ calls[p].pc = "delete_object"
    /\ ~HasObject(bucket, GetKeyForId(bucket_path, calls[p].id))
    /\ IF raises THEN Return(p, calls[p].value) ELSE Goto(p, "insert_one")
    /\ UNCHANGED <<collection, bucket, frame>>

\* _set_bytes, lines 113-115, called from line 186
InsertOneStep(p) ==
    /\ calls[p].pc = "insert_one"
    /\ LET ins == InsertOne(collection, MakeDoc(calls[p].id, calls[p].value[1]))
       IN  IF ins.err = ""
           THEN collection' = ins.coll /\ Return(p, calls[p].value)
           ELSE UNCHANGED collection /\ Goto(p, "update_one")
    /\ UNCHANGED <<bucket, frame>>

\* _set_bytes, line 116
UpdateOneStep(p) ==
    /\ calls[p].pc = "update_one"
    /\ collection' = UpdateOne(collection, calls[p].id,
                               MakeDoc(calls[p].id, calls[p].value[1]))
    /\ Return(p, calls[p].value)
    /\ UNCHANGED <<bucket, frame>>

\* the request caller p is about to send fails with a transport failure,
\* which no handler of the call catches
TransportFailure(p) ==
    /\ calls[p].pc \in Faults \ {""}
    /\ Raise(p, calls[p].pc)
    /\ UNCHANGED <<collection, bucket, frame>>

NextC ==
    \E p \in Procs :
        \/ \E id \in Ids : CallGet(p, id)
        \/ FindOneStep(p)
        \/ GetObjectStep(p)
        \/ DeleteObjectStep(p)
        \/ \E raises \in BOOLEAN : DeleteMissingStep(p, raises)
        \/ InsertOneStep(p)
        \/ UpdateOneStep(p)
        \/ TransportFailure(p)

SpecC == InitC /\ [][NextC]_vars

----------------------------------------------------------------------------
(* SpecI: engines are constructed one after the other over the same        *)
(* collection, each with its own default_ttl_days, all with the configured *)
(* compression name, registered or not; a constructed engine serves set.   *)

Ttls == 0..MaxTtl       \* 0 stands for None

CodecNames == Registry \cup {"", "lz4"}

InitI ==
    /\ compression \in CodecNames
    /\ read_from_s3 = FALSE
    /\ bucket_path = None
    /\ collection \in {{}, {LegacyDoc}}
    /\ indexes = {}
    /\ bucket = <<>>
    /\ cold = [id \in Ids |-> None]
    /\ today = 1
    /\ last = NoCall
    /\ calls = <<>>

\* __init__ ends with the outcome r of lines 52-66; lines 40-50 assign the
\* arguments and check none of them
Constructed(default_ttl_days, r) ==
    /\ indexes' = r.indexes
    /\ last' = [NoCall EXCEPT !.op = "new", !.data = <<default_ttl_days>>,
                              !.raised = r.raised, !.path = r.path]

\* MongoNodeStorage(default_ttl_days=..., compression=...)
New(default_ttl_days, f) ==
    /\ Constructed(default_ttl_days, EnsureTtlIndex(indexes, default_ttl_days, f))
    /\ UNCHANGED <<compression, read_from_s3, bucket_path, collection, bucket,
                   today, calls, cold>>

NextI ==
    \/ \E default_ttl_days \in Ttls, f \in IndexFaults : New(default_ttl_days, f)
    \/ \E id \in Ids, data \in Payloads : Set(id, data)

SpecI == InitI /\ [][NextI]_vars

----------------------------------------------------------------------------
(* SpecP: engines are constructed concurrently over a collection whose     *)
(* created_day_ttl index was made with another TTL; one action per index   *)
(* request. calls[e] is the frame of the __init__ of engine e.             *)

OldTtl == MaxTtl + 1

NotBuilt == [pc |-> "idle", default_ttl_days |-> 0, raised |-> ""]

InitP ==
    /\ compression \in {"", "zstd"}
    /\ read_from_s3 = FALSE
    /\ bucket_path = None
    /\ collection \in {{}, {LegacyDoc}}
    /\ indexes = {TtlIndex(OldTtl)}
    /\ bucket = <<>>
    /\ cold = [id \in Ids |-> None]
    /\ today = 1
    /\ last = NoCall
    /\ calls = [e \in Procs |-> NotBuilt]

others == <<compression, read_from_s3, bucket_path, collection, bucket, today,
            last, cold>>

\* MongoNodeStorage(default_ttl_days=...) is called: lines 40-52
CallNew(e, default_ttl_days) ==
    /\ calls[e].pc = "idle"
    /\ calls' = [calls EXCEPT
                    ![e].pc = IF default_ttl_days = 0 THEN "done"
                              ELSE "create_index",
                    ![e].default_ttl_days = default_ttl_days]
    /\ UNCHANGED <<indexes, others>>

\* lines 53-60
CreateIndexStep(e) ==
    /\ calls[e].pc = "create_index"
    /\ LET c == CreateIndex(indexes, TtlIndex(calls[e].default_ttl_days))
       IN  /\ indexes' = c.indexes
           /\ IF c.err = OptionsConflict THEN Goto(e, "drop_index")
              ELSE Goto(e, "done")
    /\ UNCHANGED others

\* line 61; its OperationFailure is raised in the handler and leaves __init__
DropIndexStep(e) ==
    /\ calls[e].pc = "drop_index"
    /\ LET d == DropIndex(indexes, "created_day_ttl")
       IN  /\ indexes' = d.indexes
           /\ IF d.err = "" THEN Goto(e, "recreate_index") ELSE Raise(e, d.err)
    /\ UNCHANGED others

\* lines 62-66
RecreateIndexStep(e) ==
    /\ calls[e].pc = "recreate_index"
    /\ LET c == CreateIndex(indexes, TtlIndex(calls[e].default_ttl_days))
       IN  /\ indexes' = c.indexes
           /\ IF c.err = "" THEN Goto(e, "done") ELSE Raise(e, c.err)
    /\ UNCHANGED others

NextP ==
    \E e \in Procs :
        \/ \E default_ttl_days \in Ttls : CallNew(e, default_ttl_days)
        \/ CreateIndexStep(e)
        \/ DropIndexStep(e)
        \/ RecreateIndexStep(e)

SpecP == InitP /\ [][NextP]_vars

----------------------------------------------------------------------------
(* SpecW: concurrent set(id, data) calls, one action per request to the    *)
(* primary tier. calls[p] is the frame of caller p; value is its data.     *)

InitW ==
    /\ compression \in {"", "zstd"}
    /\ read_from_s3 = FALSE
    /\ bucket_path = None
    /\ collection \in {{}, {LegacyDoc}}
    /\ indexes = {}
    /\ bucket = <<>>
    /\ cold = [id \in Ids |-> None]
    /\ today = 1
    /\ last = NoCall
    /\ calls = [p \in Procs |-> Idle]

\* set(id, data) is called
CallSet(p, id, data) ==
    /\ calls[p].pc = "idle"
    /\ calls' = [calls EXCEPT ![p].pc = "insert_one", ![p].id = id,
                              ![p].value = Some(data)]
    /\ UNCHANGED <<collection, bucket, frame>>

\* faulty variant of SetInsertOne: the DuplicateKeyError is not caught
SetInsertOneNoCatch(p) ==
    /\ calls[p].pc = "insert_one"
    /\ LET ins == InsertOne(collection, MakeDoc(calls[p].id, calls[p].value[1]))
       IN  IF ins.err = ""
           THEN collection' = ins.coll /\ Return(p, None)
           ELSE UNCHANGED collection /\ Raise(p, ins.err)
    /\ UNCHANGED <<bucket, frame>>

\* _set_bytes, lines 96-115
SetInsertOne(p) ==
    /\ calls[p].pc = "insert_one"
    /\ LET ins == InsertOne(collection, MakeDoc(calls[p].id, calls[p].value[1]))
       IN  IF ins.err = ""
           THEN collection' = ins.coll /\ Return(p, None)
           ELSE UNCHANGED collection /\ Goto(p, "update_one")
    /\ UNCHANGED <<bucket, frame>>

\* _set_bytes, line 116
SetUpdateOne(p) ==
    /\ calls[p].pc = "update_one"
    /\ collection' = UpdateOne(collection, calls[p].id,
                               MakeDoc(calls[p].id, calls[p].value[1]))
    /\ Return(p, None)
    /\ UNCHANGED <<bucket, frame>>

NextW ==
    \E p \in Procs :
        \/ \E id \in Ids, data \in Payloads : CallSet(p, id, data)
        \/ SetInsertOne(p)
        \/ SetUpdateOne(p)

SpecW == InitW /\ [][NextW]_vars

----------------------------------------------------------------------------
(* Vocabulary of the properties *)

Range(seq) == {seq[i] : i \in DOMAIN seq}

Key(id) == GetKeyForId(bucket_path, id)

InPrimary(id) == DocsOf(collection, id) # {}

InArchival(id) == HasObject(bucket, Key(id))

\* coll holds exactly one record for id, and it decodes to v
Holds(coll, id, v) ==
    /\ Cardinality(DocsOf(coll, id)) = 1
    /\ \A d \in DocsOf(coll, id) : DocValue(d) = v

PrimaryHolds(id, v) == Holds(collection, id, v)

ArchivalValue(id) == ObjectValue(bucket[Key(id)])

\* the step is a call of op on ids that returned
Returned(op, ids) ==
    last'.op = op /\ last'.ids = ids /\ last'.raised = ""

----------------------------------------------------------------------------
(* C1. Write/read round trip: set(id, v) followed by get(id), with no      *)
(* other operation on id in between, returns exactly v, with compression   *)
(* configured or not and whether or not the codec shortens v.              *)
(*  - a get(id) right after set(id, v) returns v;                          *)
(*  - set(id, v) leaves the one record MakeDoc(id, v), a call that does    *)
(*    not name id leaves the records of id as they are, and a get(id) that *)
(*    finds MakeDoc(id, v) returns v (so calls on other ids may come in    *)
(*    between).                                                            *)

WrittenIn(coll, id, v) == DocsOf(coll, id) = {MakeDoc(id, v)}

SetThenGet ==
    [][\A id \in Ids :
        /\ (last.op = "set" /\ last.ids = <<id>> /\ last'.op = "get"
                /\ last'.ids = <<id>>)
            => (last'.raised = "" /\ last'.ret = Some(last.data))
        /\ (last'.op = "set" /\ last'.ids = <<id>>)
            => (last'.raised = "" /\ WrittenIn(collection', id, last'.data))
        /\ id \notin Range(last'.ids)
            => DocsOf(collection', id) = DocsOf(collection, id)
        /\ (last'.op = "get" /\ last'.ids = <<id>>)
            => \A v \in Payloads :
                  WrittenIn(collection, id, v)
                  => (last'.raised = "" /\ last'.ret = Some(v))
      ]_vars

\* get read back <<0, 0, 0>> from a zstd-coded record, and <<0>> from a raw
\* one written with zstd configured: only set writes these values
SetThenGetWitnessCoded ==
    /\ last.op = "get" /\ last.ids = <<"a">> /\ last.path = "primary"
    /\ last.ret = Some(<<0, 0, 0>>)
    /\ \E d \in DocsOf(collection, "a") :
          d.content_encoding = "zstd" /\ Len(d.data) < 3

SetThenGetWitnessRaw ==
    /\ last.op = "get" /\ last.ids = <<"a">> /\ last.path = "primary"
    /\ last.ret = Some(<<0>>) /\ compression = "zstd"
    /\ \E d \in DocsOf(collection, "a") : d.content_encoding = ""

----------------------------------------------------------------------------
(* C2. Overwrite: set(id, a); set(id, b); get(id) returns b, and the       *)
(* primary tier then holds exactly one record for id, whose data and       *)
(* content_encoding are those of the second write.                         *)

Overwrite ==
    [][\A id \in Ids :
        /\ (last.op = "set" /\ last.ids = <<id>> /\ last'.op = "set"
                /\ last'.ids = <<id>>)
            => /\ last'.raised = "" /\ last'.path = "update"
               /\ DocsOf(collection', id) = {MakeDoc(id, last'.data)}
        /\ (last.op = "set" /\ last.ids = <<id>> /\ last.path = "update"
                /\ last'.op = "get" /\ last'.ids = <<id>>)
            => /\ last'.raised = "" /\ last'.ret = Some(last.data)
               /\ DocsOf(collection', id) = {MakeDoc(id, last.data)}
      ]_vars

\* a get returned the raw <<0>> that replaced a record (zstd configured)
OverwriteWitness ==
    /\ last.op = "set" /\ last.ids = <<"b">> /\ last.path = "update"
    /\ last.data = <<0>> /\ compression = "zstd"
    /\ DocsOf(collection, "b") = {MakeDoc("b", <<0>>)}

----------------------------------------------------------------------------
(* C3. Migration-on-read: with the archival tier enabled and id only in    *)
(* the archival tier with logical value X, a get(id) that returns, returns *)
(* X; right after, the primary tier holds id decoding to X and the         *)
(* archival tier no longer holds id.                                       *)

MigrationOnRead ==
    [][\A id \in Ids :
        (read_from_s3 /\ ~InPrimary(id) /\ InArchival(id)
            /\ Returned("get", <<id>>))
        => /\ last'.ret = Some(ArchivalValue(id))
           /\ Holds(collection', id, ArchivalValue(id))
           /\ ~InArchival(id)'
      ]_vars

MigrationOnReadWitness ==
    /\ last.op = "get" /\ last.ids = <<"b">> /\ last.path = "migrated"
    /\ last.ret = Some(<<1, 1, 1>>) /\ cold["b"] = last.ret
    /\ PrimaryHolds("b", <<1, 1, 1>>) /\ ~InArchival("b")

----------------------------------------------------------------------------
(* C4. Batched values: get_multi maps every listed id that has a primary   *)
(* record, or (archival enabled) no primary record but an archival object, *)
(* to its decoded logical value; an id is mapped to absent only if it is   *)
(* in neither tier.                                                        *)

BatchedValues ==
    [][(last'.op = "get_multi" /\ last'.raised = "")
        => \A id \in Range(last'.ids) :
            /\ InPrimary(id)
                => \E d \in DocsOf(collection, id) :
                      last'.result[id] = Some(DocValue(d))
            /\ (~InPrimary(id) /\ read_from_s3 /\ InArchival(id))
                => last'.result[id] = Some(ArchivalValue(id))
            /\ last'.result[id] = None
                => (~InPrimary(id) /\ ~(read_from_s3 /\ InArchival(id)))
      ]_vars

----------------------------------------------------------------------------
(* C5. Batched completeness: the keys of the mapping get_multi returns are *)
(* exactly the distinct input ids, and an id unknown to both tiers maps to *)
(* absent.                                                                 *)

BatchedCompleteness ==
    [][(last'.op = "get_multi" /\ last'.raised = "")
        => /\ DOMAIN last'.result = Range(last'.ids)
           /\ \A id \in Range(last'.ids) :
                (~InPrimary(id) /\ ~InArchival(id)) => last'.result[id] = None
      ]_vars

\* a list that names an unknown id twice got one entry, absent
BatchedCompletenessWitness ==
    /\ last.op = "get_multi" /\ last.ids = <<"b", "b">> /\ last.raised = ""
    /\ cold["b"] = None /\ ~InPrimary("b")
    /\ DOMAIN last.result = {"b"} /\ last.result["b"] = None

----------------------------------------------------------------------------
(* C6. get_multi performs no migration: a get_multi call leaves both tiers *)
(* unchanged; an id moves from archival-only to primary-only only as a     *)
(* side effect of the single-id get.                                       *)

ArchivalOnly(id) == ~InPrimary(id) /\ InArchival(id)

PrimaryOnly(id) == InPrimary(id) /\ ~InArchival(id)

----------------------------------------------------------------------------
(* C8. Archival delete failure is non-fatal to the read: when get(id)      *)
(* finds id in the archival tier and the archival delete then fails, get   *)
(* still returns the decoded logical value instead of failing.             *)
(* (the fetch and the primary write do not fail: the call raised nothing   *)
(* or raised the delete's failure)                                         *)

DeleteFailureNonFatal ==
    [][\A id \in Ids :
        (read_from_s3 /\ ArchivalOnly(id) /\ last'.op = "get"
            /\ last'.ids = <<id>> /\ last'.raised \in {"", "delete_object"})
        => (last'.raised = "" /\ last'.ret = Some(ArchivalValue(id)))
      ]_vars

----------------------------------------------------------------------------
(* C10. Explicit delete touches the primary tier only: delete(id) and      *)
(* delete_multi(ids) remove the named ids from the primary tier, succeed   *)
(* when an id is absent, and leave every other primary record and the      *)
(* whole archival tier unchanged; a get(id) after delete(id) for an id     *)
(* that has an archival object returns the archival value and migrates it  *)
(* back into the primary tier.                                             *)

ExplicitDelete ==
    [][/\ last'.op \in {"delete", "delete_multi"}
            => /\ last'.raised = ""
               /\ collection' = {d \in collection : d._id \notin Range(last'.ids)}
               /\ bucket' = bucket
       /\ \A id \in Ids :
            (/\ last.op \in {"delete", "delete_multi"} /\ id \in Range(last.ids)
             /\ read_from_s3 /\ InArchival(id) /\ Returned("get", <<id>>))
            => /\ last'.ret = Some(ArchivalValue(id))
               /\ last'.path = "migrated"
               /\ Holds(collection', id, ArchivalValue(id))
      ]_vars

\* delete removed the record of an id whose archival object stays
ExplicitDeleteWitness ==
    /\ last.op = "delete" /\ last.ids = <<"a">> /\ last.path = "deleted"
    /\ ~InPrimary("a") /\ InArchival("a") /\ InPrimary("b")

\* delete_multi of two ids, one of them absent, removed the other
ExplicitDeleteMultiWitness ==
    /\ last.op = "delete_multi" /\ last.ids = <<"a", "b">>
    /\ last.path = "deleted" /\ collection = {} /\ bucket # <<>>

----------------------------------------------------------------------------
(* C7. Migration never passes through a state of loss: the primary write   *)
(* happens before the archival delete, so in every state, the intermediate *)
(* states of a get and the state left by a failed primary write included,  *)
(* an id that was in a tier (and was not deleted or expired: SpecC does    *)
(* neither) is in at least one tier; the archival object is deleted only   *)
(* after the primary write has succeeded.                                  *)

NoLossDuringMigration ==
    [][\A id \in Ids :
        /\ (InPrimary(id) \/ InArchival(id))
            => (InPrimary(id)' \/ InArchival(id)')
        /\ (InArchival(id) /\ ~InArchival(id)') => InPrimary(id)
      ]_vars

----------------------------------------------------------------------------
(* C9. Concurrent migration: when two or more get(id) calls run            *)
(* concurrently for an id that is archival-only with value X (no set or    *)
(* delete runs, no request fails), every one of the calls returns X under  *)
(* every interleaving, and once all have returned the primary tier holds   *)
(* id decoding to X and the archival tier does not hold id.                *)

Callers(id) == {p \in Procs : calls[p].id = id}

AllReturned(id) ==
    \A p \in Callers(id) : calls[p].pc = "done" /\ calls[p].raised = ""

ConcurrentGetsAllReturnX ==
    \A id \in Ids :
        (read_from_s3 /\ cold[id] # None /\ Cardinality(Callers(id)) >= 2
            /\ \A p \in Procs : calls[p].raised = "")
        => /\ \A p \in Callers(id) :
                calls[p].pc = "done" => calls[p].ret = cold[id]
           /\ AllReturned(id)
                => (PrimaryHolds(id, cold[id][1]) /\ ~InArchival(id))

(* C9 as the code has it: a call whose fetch comes after another call's    *)
(* delete finds no object and returns absent. Every call that returns,     *)
(* returns X or absent, absent only when the object is gone; once all the  *)
(* calls for id have returned, at least one of them returned X, the        *)
(* primary tier holds id decoding to X and the archival tier does not hold *)
(* id.                                                                     *)

ConcurrentGets ==
    \A id \in Ids :
        (read_from_s3 /\ cold[id] # None)
        => /\ \A p \in Callers(id) :
                (calls[p].pc = "done" /\ calls[p].raised = "")
                => /\ calls[p].ret \in {cold[id], None}
                   /\ calls[p].ret = None => ~InArchival(id)
           /\ (Callers(id) # {} /\ AllReturned(id))
                => /\ \E p \in Callers(id) : calls[p].ret = cold[id]
                   /\ PrimaryHolds(id, cold[id][1])
                   /\ ~InArchival(id)

\* two calls for "b" have returned: one moved the zstd-coded object and
\* returned its value, the other came between the delete and the write
ConcurrentGetsWitness ==
    /\ read_from_s3 /\ cold["b"] = Some(<<1, 1, 1>>)
    /\ Callers("b") = Procs /\ AllReturned("b")
    /\ \E p \in Procs : calls[p].ret = cold["b"]
    /\ \E p \in Procs : calls[p].ret = None
    /\ PrimaryHolds("b", <<1, 1, 1>>) /\ ~InArchival("b")

\* both calls fetched the object, and both returned its value
ConcurrentGetsWitnessBoth ==
    /\ read_from_s3 /\ cold["a"] = Some(<<0, 1>>)
    /\ Callers("a") = Procs /\ AllReturned("a")
    /\ \A p \in Procs : calls[p].ret = cold["a"] /\ calls[p].value = cold["a"]
    /\ PrimaryHolds("a", <<0, 1>>) /\ ~InArchival("a")

----------------------------------------------------------------------------
(* Records the engine writes: the step wrote the logical value v under id, *)
(* by set, by the migration of a get, or by the migration of a get_multi.  *)

Values == Payloads \cup {ObjectValue(obj) : obj \in ColdObjects}

Wrote(id, v) ==
    \/ last'.op = "set" /\ last'.ids = <<id>> /\ last'.data = v
    \/ /\ last'.op = "get" /\ last'.ids = <<id>>
       /\ last'.path = "migrated" /\ last'.ret = Some(v)
    \/ /\ last'.op = "get_multi" /\ last'.raised = "" /\ id \in Range(last'.ids)
       /\ read_from_s3 /\ ArchivalOnly(id) /\ ArchivalValue(id) = v

----------------------------------------------------------------------------
(* C11. Compression guard: every record written by set, directly or        *)
(* through migration, has a non-empty content_encoding only if the         *)
(* configured codec's encoded length is no longer than the logical value's *)
(* length, and then data is the encoded form; otherwise data is the raw    *)
(* logical value with an empty tag. Hence in every state the data of a     *)
(* record is never longer than its logical value.                          *)

CompressionGuard ==
    [][/\ \A id \in Ids, v \in Values :
            Wrote(id, v)
            => /\ DocsOf(collection', id) # {}
               /\ \A d \in DocsOf(collection', id) :
                    LET encoded == CodecEncode(compression, v)
                    IN  /\ d.content_encoding # ""
                            => /\ d.content_encoding = compression
                               /\ Len(encoded) <= Len(v)
                               /\ d.data = encoded
                        /\ d.content_encoding = "" => d.data = v
                        /\ Len(encoded) > Len(v) => d.content_encoding = ""
                        /\ Len(d.data) <= Len(v)
       /\ \A d \in collection' : Len(d.data) <= Len(DocValue(d))
      ]_vars

\* a migration wrote <<0, 1>>, which zstd would lengthen, raw
CompressionGuardWitness ==
    /\ last.op = "get" /\ last.ids = <<"a">> /\ last.path = "migrated"
    /\ last.ret = Some(<<0, 1>>) /\ compression = "zstd"
    /\ Len(ZstdEncode(<<0, 1>>)) > 2
    /\ \E d \in DocsOf(collection, "a") :
          d.content_encoding = "" /\ d.data = <<0, 1>>

\* a set wrote <<0, 0, 0>>, which zstd shortens, coded
CompressionGuardWitnessCoded ==
    /\ last.op = "set" /\ last.ids = <<"a">> /\ last.data = <<0, 0, 0>>
    /\ \E d \in DocsOf(collection, "a") :
          /\ d.content_encoding = "zstd" /\ d.data = ZstdEncode(<<0, 0, 0>>)
          /\ Len(d.data) < 3

----------------------------------------------------------------------------
(* C12. Strict reduction: a record is stored compressed (non-empty         *)
(* content_encoding) only when the encoded form is strictly shorter than   *)
(* the logical value; when the encoded length equals the original length   *)
(* the value is stored raw with an empty tag.                              *)

StrictReduction ==
    [][\A id \in Ids, v \in Values :
        Wrote(id, v)
        => \A d \in DocsOf(collection', id) :
            /\ d.content_encoding # ""
                => Len(CodecEncode(d.content_encoding, v)) < Len(v)
            /\ (compression # "" /\ Len(CodecEncode(compression, v)) = Len(v))
                => (d.content_encoding = "" /\ d.data = v)
      ]_vars

----------------------------------------------------------------------------
(* C16. cleanup is a no-op: for every cutoff value and from every          *)
(* reachable state, cleanup(cutoff) returns without error and leaves the   *)
(* primary tier and the archival tier unchanged.                           *)

CleanupNoOp ==
    [][\A cutoff_timestamp \in 0..1 :
        (ENABLED Cleanup(cutoff_timestamp))
        /\ (last'.op = "cleanup"
            => /\ last'.raised = ""
               /\ collection' = collection
               /\ bucket' = bucket)
      ]_vars

\* cleanup returned with a cutoff later than the day of a record that stays
CleanupNoOpWitness ==
    /\ last.op = "cleanup" /\ last.data = <<1>> /\ last.raised = ""
    /\ \E d \in collection : d.created_day < 1
    /\ bucket # <<>>

----------------------------------------------------------------------------
(* C17. A primary hit short-circuits the read: when id has a primary       *)
(* record, get(id) returns the value decoded from that record (also when   *)
(* the archival tier holds a different value under the same id), issues no *)
(* archival fetch or delete (so a failing archival tier does not fail the  *)
(* call) and leaves both tiers unchanged; with the archival tier disabled, *)
(* no get or get_multi ever reads or deletes an archival object.           *)

PrimaryHit ==
    [][/\ \A id \in Ids :
            (InPrimary(id) /\ last'.op = "get" /\ last'.ids = <<id>>)
            => /\ last'.raised = "" /\ last'.path = "primary"
               /\ \E d \in DocsOf(collection, id) : last'.ret = Some(DocValue(d))
               /\ collection' = collection
               /\ bucket' = bucket
       /\ (~read_from_s3 /\ last'.op \in {"get", "get_multi"})
            => /\ last'.raised = ""
               /\ last'.path \notin {"NoSuchKey", "migrated"}
               /\ bucket' = bucket
               /\ collection' = collection
      ]_vars

\* get returned the value of the record of "b" while the archival tier,
\* enabled, holds another value under "b"
PrimaryHitWitness ==
    /\ last.op = "get" /\ last.ids = <<"b">> /\ last.path = "primary"
    /\ read_from_s3 /\ InArchival("b")
    /\ last.ret = Some(<<0, 0, 0>>) /\ ArchivalValue("b") = <<1, 1, 1>>

\* with the archival tier disabled, get missed an id the bucket holds
PrimaryHitWitnessDisabled ==
    /\ last.op = "get" /\ last.ids = <<"a">> /\ last.path = "miss"
    /\ ~read_from_s3 /\ InArchival("a") /\ last.ret = None

----------------------------------------------------------------------------
(* C18. Archival fetch failures are propagated: when the archival get for  *)
(* an id fails with a failure other than not-found, get(id) (and get_multi *)
(* for a primary-missing id) fails with that failure rather than returning *)
(* absent or a value, and neither tier has been modified for that id; only *)
(* a not-found fetch result is turned into absent.                         *)

FetchFailurePropagated ==
    [][/\ \A id \in Ids :
            (/\ last'.op = "get" /\ last'.ids = <<id>>
             /\ read_from_s3 /\ ~InPrimary(id) /\ Get(id, "get_object"))
            => /\ last'.raised = "get_object"
               /\ collection' = collection
               /\ bucket' = bucket
       /\ \A ids \in IdLists, at \in Ids :
            (/\ last'.op = "get_multi" /\ last'.ids = ids
             /\ read_from_s3 /\ at \in Range(ids) /\ ~InPrimary(at)
             /\ GetMulti(ids, "get_object", at))
            => /\ last'.raised = "get_object" /\ last'.failed = at
               /\ DocsOf(collection', at) = DocsOf(collection, at)
               /\ InArchival(at)' = InArchival(at)
               /\ InArchival(at) => ArchivalValue(at)' = ArchivalValue(at)
       /\ \A id \in Ids :
            (/\ last'.op = "get" /\ last'.ids = <<id>>
             /\ last'.raised = "" /\ last'.ret = None)
            => (~InPrimary(id) /\ (read_from_s3 => ~InArchival(id)))
      ]_vars

\* a get_multi moved "b", then failed on the fetch of "a", which stays
FetchFailurePropagatedWitness ==
    /\ last.op = "get_multi" /\ last.ids = <<"b", "a">>
    /\ last.raised = "get_object" /\ last.failed = "a" /\ last.path = "migrated"
    /\ ArchivalOnly("a") /\ PrimaryOnly("b") /\ cold["b"] # None

\* a get failed on the fetch and left the object and the primary tier alone
FetchFailurePropagatedWitnessGet ==
    /\ last.op = "get" /\ last.ids = <<"a">> /\ last.raised = "get_object"
    /\ ArchivalOnly("a") /\ read_from_s3

----------------------------------------------------------------------------
(* C13. An unknown codec name fails at configuration time: constructing    *)
(* the engine with a compression name that is not in the codec registry    *)
(* fails at construction, so an engine that was constructed successfully   *)
(* never has a set (or a migration write) fail because the configured      *)
(* codec name is unregistered.                                             *)

UnknownCodecFailsAtConstruction ==
    [][/\ (last'.op = "new" /\ compression # "" /\ compression \notin Registry)
            => last'.raised # ""
       /\ last'.op = "set" => last'.raised # "KeyError"
      ]_vars

----------------------------------------------------------------------------
(* C14. TTL provisioning is idempotent and self-healing when run           *)
(* sequentially: after any sequence of provisioning calls with non-zero    *)
(* TTL values t1..tn, none of the calls errors and exactly one index named *)
(* created_day_ttl exists, on created_day, with expireAfterSeconds =       *)
(* tn * 86400; two calls with the same TTL leave one index, and a call     *)
(* with a different TTL drops and recreates it under the same name.        *)
(* (every call whose requests the collection serves, whatever the calls    *)
(* before it left)                                                         *)

TtlIdempotent ==
    [][\A t \in Ttls \ {0} :
        (last'.op = "new" /\ last'.data = <<t>> /\ New(t, ""))
        => /\ last'.raised = ""
           /\ Cardinality(indexes') = 1
           /\ \A i \in indexes' :
                /\ i.name = "created_day_ttl" /\ i.key = "created_day"
                /\ i.expireAfterSeconds = t * 86400
           /\ (\E i \in indexes : i.expireAfterSeconds = t * 86400)
                => (indexes' = indexes /\ last'.path = "exists")
           /\ (\E i \in indexes : i.expireAfterSeconds # t * 86400)
                => last'.path = "recreated"
      ]_vars

\* a call with 2 days replaced the index of a call with another TTL
TtlIdempotentWitness ==
    /\ last.op = "new" /\ last.data = <<2>> /\ last.path = "recreated"
    /\ last.raised = ""
    /\ indexes = {[name |-> "created_day_ttl", key |-> "created_day",
                   expireAfterSeconds |-> 172800]}

\* a call with 1 day found the index of an earlier call with 1 day
TtlIdempotentWitnessSame ==
    /\ last.op = "new" /\ last.data = <<1>> /\ last.path = "exists"
    /\ last.raised = ""
    /\ indexes = {[name |-> "created_day_ttl", key |-> "created_day",
                   expireAfterSeconds |-> 86400]}

----------------------------------------------------------------------------
(* C19. Index provisioning does not silently drop failures: when the       *)
(* primary tier rejects the TTL index creation with a failure other than   *)
(* an option conflict with the existing index, the failure reaches the     *)
(* caller of provisioning; provisioning never returns normally while no    *)
(* created_day_ttl index with the requested TTL exists.                    *)

ProvisioningFailuresSurface ==
    [][\A t \in Ttls \ {0} :
        (last'.op = "new" /\ last'.data = <<t>>)
        => /\ \A f \in {"OperationFailure", "ConnectionFailure"} :
                New(t, f) => last'.raised # ""
           /\ last'.raised = ""
                => \E i \in indexes' :
                      /\ i.name = "created_day_ttl"
                      /\ i.expireAfterSeconds = t * 86400
      ]_vars

----------------------------------------------------------------------------
(* C15. Concurrent writers converge: when two set calls for the same id    *)
(* with values a and b run concurrently (each as insert, then replace on   *)
(* duplicate key) and no delete or expiry of id occurs, neither call       *)
(* surfaces the duplicate-key collision to its caller, and in every        *)
(* reachable state the primary tier holds at most one record for id whose  *)
(* (data, content_encoding) pair is wholly that of one write; after both   *)
(* return the record is wholly a's or wholly b's.                          *)

\* d is what the set of caller p writes, whole
WriteOf(p, d) == d = MakeDoc(calls[p].id, calls[p].value[1])

ConcurrentWriters ==
    /\ \A p \in Procs : calls[p].raised = ""
    /\ \A id \in Ids :
        /\ Cardinality(DocsOf(collection, id)) <= 1
        /\ \A d \in DocsOf(collection, id) :
              d = LegacyDoc \/ \E p \in Callers(id) : WriteOf(p, d)
        /\ (Callers(id) # {} /\ AllReturned(id))
              => /\ Cardinality(DocsOf(collection, id)) = 1
                 /\ \A d \in DocsOf(collection, id) :
                       \E p \in Callers(id) : WriteOf(p, d)

\* both callers wrote "a", one <<0, 0, 0>> (stored coded) and the other <<0>>
\* (stored raw), and both returned: the second insert_one collided
ConcurrentWritersWitness ==
    /\ compression = "zstd" /\ Callers("a") = Procs /\ AllReturned("a")
    /\ {calls[p].value : p \in Procs} = {Some(<<0, 0, 0>>), Some(<<0>>)}
    /\ \E d \in DocsOf(collection, "a") :
          d.data = <<0>> /\ d.content_encoding = ""

----------------------------------------------------------------------------
(* C20. Concurrent provisioning is safe: when two engine instances         *)
(* provision the TTL index concurrently on a collection whose existing     *)
(* created_day_ttl index has a different TTL, under every interleaving of  *)
(* their create/drop/create steps neither instance surfaces an error to    *)
(* its caller, and after both finish exactly one created_day_ttl index     *)
(* exists with one of the requested TTLs; primary records are never        *)
(* removed or altered by provisioning.                                     *)

Provisioners == {e \in Procs : calls[e].default_ttl_days # 0}

ConcurrentProvisioning ==
    [][/\ \A e \in Procs : calls'[e].raised = ""
       /\ (Provisioners' = Procs /\ \A e \in Procs : calls'[e].pc = "done")
            => /\ Cardinality(indexes') = 1
               /\ \E e \in Procs :
                    indexes' = {[name |-> "created_day_ttl",
                                 key |-> "created_day",
                                 expireAfterSeconds |->
                                    calls'[e].default_ttl_days * 86400]}
       /\ collection' = collection
      ]_vars

====
